---- MODULE Spec2Model ----
(***************************************************************************)
(* The block editor of src/components/BlockEditor.tsx (the component that  *)
(* starts at line 357) together with the host screen that owns the block   *)
(* sequence (Editor.handleBlockChange, src/src/env.d.ts:955).              *)
(*                                                                         *)
(* The host state `blocks` is what the last onChange call delivered; the   *)
(* editor re-renders after every event, so each handler below reads the    *)
(* `blocks` prop of the current render.                                    *)
(***************************************************************************)
EXTENDS Integers, Sequences, FiniteSets, TLC

\* ------------------------------------------------------------------ bounds
\* Largest sequence the insert events are allowed to build.
MaxLen == 3
\* Number of user events in one run.
MaxSteps == 5
\* Number of direct calls of the three operations in one run of OpSpec.
MaxCalls == 3
\* Resize drags whose window listeners are registered at the same time.
MaxDrags == 1
\* Presses, movements and clicks of the pointer in one run of ResizeSpec.
MaxMoves == 3
\* Keyboard, mouse and clipboard events on the surfaces and the AI modal.
MaxEdits == 5
\* Selection changes, toolbar clicks and mouse presses.
MaxTools == 4
\* Events on the read-only page.
MaxViews == 3

\* ------------------------------------------------------------- value sets
\* null of `string | null`.
Null == "null"
\* A field that is absent from a block object.
Undefined == "undefined"
\* The id of the first block of a new post.
InitialId == "1"
\* Outcomes of Math.random().toString(36).substr(2, 9): two draws can give
\* the same string, the code never compares a draw with the ids in use.
RandomIds == {"a", "b"}
Ids == {InitialId} \cup RandomIds

Paragraph == "paragraph"
Heading1 == "h1"
Heading2 == "h2"
Heading3 == "h3"
Image == "image"
Video == "video"
Quote == "quote"
List == "list"
OrderedList == "ordered-list"
Code == "code"
Divider == "divider"
BlockType ==
    {Paragraph, Heading1, Heading2, Heading3, Image, Video, Quote, List,
     OrderedList, Code, Divider}

\* Markup a user can type into a surface.
Markup == {"", "x"}
\* Text committed in the video embed field.
EmbedUrls == {"", "youtu.be/x"}
FullWidth == 100

VARIABLES
    readOnly,         \* the readOnly prop
    blocks,           \* the host's block sequence (the blocks prop)
    activeBlockId,    \* useState: focused block
    menuOpenBlockId,  \* useState: block whose type-switch menu is open
    focusTimers,      \* ids whose setTimeout(..., 10) of addBlock is pending
    steps,            \* events so far
    last,             \* the last handler call: its arguments and the state it ran in
    drags,            \* MediaBlock.handleResize: the registered window listeners, in order
    dom,              \* innerHTML of the mounted RichText element of each block id
    domFocus,         \* the block id whose RichText element is document.activeElement
    pending,          \* reader.onload / await continuations not yet run, in order
    showAiModal,      \* useState: block whose AI modal is open
    aiPrompt,         \* useState: the prompt typed into the modal
    isGenerating,     \* useState: a generation is in flight
    edits,            \* per block id, the markup of its last local edit
    deferred,         \* per block id, the external content that met a focused surface
    showToolbar,      \* useState: the floating toolbar is shown
    showColorPicker,  \* useState: the color sub-panel is shown
    selection         \* window.getSelection(): collapsed, in the RichText
                      \* element of a block id, or outside the editor

\* The RichText surfaces, the asynchronous completions and the AI modal.
surface == <<dom, domFocus, pending, showAiModal, aiPrompt, isGenerating, edits,
             deferred>>

\* The floating toolbar and the document's selection.
toolbar == <<showToolbar, showColorPicker, selection>>

\* The state that the events of the block sequence leave alone.
others == <<drags, surface, toolbar>>

vars == <<readOnly, blocks, activeBlockId, menuOpenBlockId, focusTimers, steps, last,
          others>>

\* ------------------------------------------------------------ pure helpers
\* Array.prototype.findIndex: the first index (0-based) or -1.
RECURSIVE FindFrom(_, _, _)
FindFrom(bs, id, k) ==
    IF k > Len(bs) THEN -1
    ELSE IF bs[k].id = id THEN k - 1
    ELSE FindFrom(bs, id, k + 1)

FindIndex(bs, id) == FindFrom(bs, id, 1)

\* { ...b, ...updates }
Merge(b, updates) ==
    [f \in DOMAIN b |-> IF f \in DOMAIN updates THEN updates[f] ELSE b[f]]

\* Mutant of MapUpdate: a retype also clears the content, as the image paste
\* conversion does.
MapUpdateRetypeClears(bs, id, updates) ==
    [i \in 1..Len(bs) |->
        IF bs[i].id # id THEN bs[i]
        ELSE IF "type" \in DOMAIN updates
             THEN [Merge(bs[i], updates) EXCEPT !.content = ""]
             ELSE Merge(bs[i], updates)]

\* Mutant of MapUpdate: the id test is dropped, every block gets the fields.
MapUpdateAnyId(bs, id, updates) ==
    [i \in 1..Len(bs) |-> Merge(bs[i], updates)]

\* blocks.map(b => b.id === id ? { ...b, ...updates } : b)
MapUpdate(bs, id, updates) ==
    [i \in 1..Len(bs) |-> IF bs[i].id = id THEN Merge(bs[i], updates) ELSE bs[i]]

\* The object literal of addBlock.
NewBlock(nid, type) ==
    [id |-> nid, type |-> type, content |-> "", src |-> Undefined,
     width |-> FullWidth, align |-> "left"]

\* newBlocks.splice(index + 1, 0, newBlock) with index = findIndex(afterId).
Spliced(bs, afterId, nb) ==
    LET at == FindIndex(bs, afterId) + 1
    IN  SubSeq(bs, 1, at) \o <<nb>> \o SubSeq(bs, at + 1, Len(bs))

\* blocks.filter(b => b.id !== id)
RECURSIVE Filtered(_, _)
Filtered(bs, id) ==
    IF bs = <<>> THEN <<>>
    ELSE IF Head(bs).id = id THEN Filtered(Tail(bs), id)
    ELSE <<Head(bs)>> \o Filtered(Tail(bs), id)

\* Mutant of RemoveRefused: the guard is off by one (blocks.length < 1).
RemoveRefusedOnlyEmpty(ro, bs) == ro \/ Len(bs) < 1

\* removeBlock's guard: readOnly || blocks.length <= 1.
RemoveRefused(ro, bs) == ro \/ Len(bs) <= 1

\* removeBlock's focus transfer: if (index > 0) setActiveBlockId(newBlocks[index - 1].id)
FocusAfterRemove(bs, id, active) ==
    LET index == FindIndex(bs, id)
        nbs   == Filtered(bs, id)
    IN  IF index > 0 THEN nbs[index].id ELSE active

IdsOf(bs) == {bs[i].id : i \in 1..Len(bs)}

\* The first block of a new post (App.renderContent).
FirstBlock ==
    [id |-> InitialId, type |-> Paragraph, content |-> "", src |-> Undefined,
     width |-> FullWidth, align |-> Undefined]

NoCall == [op |-> "none"]

\* renderBlockContent: the types whose case renders an editable RichText
\* surface (the default case included); Image/Video render a MediaBlock and
\* Divider an <hr>.
IsText(type) == type \notin {Image, Video, Divider}

\* JavaScript truthiness of an optional string field.
Falsy(v) == v = Undefined \/ v = ""

\* MediaBlock's video embed onBlur: share links are rewritten to embed links.
ToEmbedUrl(url) ==
    CASE url = "youtube.com/watch?v=x" -> "youtube.com/embed/x"
      [] url = "youtu.be/x" -> "youtube.com/embed/x"
      [] OTHER -> url

\* The sequence without its k-th element.
Without(bs, k) == SubSeq(bs, 1, k - 1) \o SubSeq(bs, k + 1, Len(bs))

\* blocks.find: the block React renders under the key `id`.
BlockOf(bs, id) == bs[FindIndex(bs, id) + 1]

\* renderBlockContent: where the RichText element sits in what the case
\* returns: returned itself, inside a wrapping <div>, or not rendered.
Shape(type) ==
    IF type \in {Quote, Code, List, OrderedList} THEN "wrapped"
    ELSE IF type \in {Image, Video, Divider} THEN "none"
    ELSE "direct"

\* renderBlockContent: the tagName the case passes to RichText.
TagName(type) ==
    CASE type = Heading1 -> "h1"
      [] type = Heading2 -> "h2"
      [] type = Heading3 -> "h3"
      [] type = Code -> "pre"
      [] OTHER -> "div"

\* A RichText is rendered for the block id.
Mounted(bs, id) == id \in IdsOf(bs) /\ IsText(BlockOf(bs, id).type)

\* React keeps the RichText instance of id from the render of old to the
\* render of new: same key, same element type at the same place.
SameInstance(old, new, id) ==
    /\ Mounted(old, id) /\ Mounted(new, id)
    /\ Shape(BlockOf(old, id).type) = Shape(BlockOf(new, id).type)

\* React keeps the DOM element too: createElement got the same tagName.
SameElement(old, new, id) ==
    /\ SameInstance(old, new, id)
    /\ TagName(BlockOf(old, id).type) = TagName(BlockOf(new, id).type)

\* Mutant of SyncedMarkup: the effect writes the prop into the element
\* whether or not the element holds the focus.
SyncedMarkupAlways(html, prev, shown, focused) ==
    IF html # prev /\ html # shown THEN html ELSE shown

\* RichText's useEffect(..., [html]): it runs when the html prop differs
\* from the previous render's, and writes innerHTML only if the element is
\* not document.activeElement.
SyncedMarkup(html, prev, shown, focused) ==
    IF html # prev /\ html # shown /\ ~focused THEN html ELSE shown

\* innerHTML of the RichText element of id after the render of new, d being
\* its innerHTML before and focused whether it is document.activeElement.
SurfaceAfter(old, new, id, d, focused) ==
    IF ~Mounted(new, id) THEN Null
    ELSE IF ~SameInstance(old, new, id) THEN BlockOf(new, id).content
    ELSE IF ~SameElement(old, new, id)
         THEN SyncedMarkup(BlockOf(new, id).content, BlockOf(old, id).content,
                           "", FALSE)
    ELSE SyncedMarkup(BlockOf(new, id).content, BlockOf(old, id).content,
                      d, focused)

Reconciled(old, new, d, f) ==
    [id \in Ids |-> SurfaceAfter(old, new, id, d[id], f = id)]

\* The surfaces of a first render: every RichText runs its mount effect.
Mounts(bs) == Reconciled(<<>>, bs, [id \in Ids |-> Null], Null)

\* RichText's useEffect(..., [autoFocus]): the block id whose element calls
\* focus() after the render, or null. autoFocus is activeBlockId === block.id.
AutoFocused(old, new, oa, na) ==
    IF Mounted(new, na) /\ (na # oa \/ ~SameInstance(old, new, na))
    THEN na ELSE Null

\* handleAiGenerate's cleanText: the two replace calls drop every code fence
\* (three backquotes, written ~~~ here, with or without html after them).
CleanText(text) ==
    CASE text = "~~~html g~~~" -> " g"
      [] text = "~~~g~~~" -> "g"
      [] OTHER -> text

NoMarkup == [id \in Ids |-> Null]

SurfaceStart ==
    /\ dom = Mounts(blocks)
    /\ domFocus = Null
    /\ pending = <<>>
    /\ showAiModal = Null
    /\ aiPrompt = ""
    /\ isGenerating = FALSE
    /\ edits = NoMarkup
    /\ deferred = NoMarkup
    /\ showToolbar = FALSE
    /\ showColorPicker = FALSE
    /\ selection = "collapsed"

Init ==
    /\ readOnly \in BOOLEAN
    /\ blocks = <<FirstBlock>>
    /\ activeBlockId = Null
    /\ menuOpenBlockId = Null
    /\ focusTimers = {}
    /\ steps = 0
    /\ last = NoCall
    /\ drags = <<>>
    /\ SurfaceStart

\* ------------------------------------------------------- the three handlers
Call(op, id, at, delivered, more) ==
    [f \in {"op", "id", "at", "delivered", "pre", "preActive", "preMenu",
             "prePicker"} \cup DOMAIN more |->
        CASE f = "op" -> op
          [] f = "id" -> id
          [] f = "at" -> at
          [] f = "delivered" -> delivered
          [] f = "pre" -> blocks
          [] f = "preActive" -> activeBlockId
          [] f = "preMenu" -> menuOpenBlockId
          [] f = "prePicker" -> showColorPicker
          [] OTHER -> more[f]]

\* Mutant of Written: updateBlock without its readOnly guard.
WrittenAlways(bs, id, updates) == MapUpdate(bs, id, updates)

\* updateBlock's write, for a handler that holds the sequence bs.
Written(bs, id, updates) == IF readOnly THEN bs ELSE MapUpdate(bs, id, updates)

\* updateBlock(id, updates); `at` is the position of the block whose control
\* made the call (0: none).
updateBlock(id, updates, at) ==
    /\ blocks' = Written(blocks, id, updates)
    /\ menuOpenBlockId' = IF readOnly THEN menuOpenBlockId ELSE Null
    /\ UNCHANGED <<activeBlockId, focusTimers>>
    /\ last' = Call("updateBlock", id, at, ~readOnly, [updates |-> updates])

\* addBlock(afterId, type) with nid the id Math.random() gave.
addBlock(afterId, type, nid, at) ==
    /\ blocks' = IF readOnly THEN blocks
                 ELSE Spliced(blocks, afterId, NewBlock(nid, type))
    /\ focusTimers' = IF readOnly THEN focusTimers ELSE focusTimers \cup {nid}
    /\ UNCHANGED <<activeBlockId, menuOpenBlockId>>
    /\ last' = Call("addBlock", afterId, at, ~readOnly, [type |-> type, nid |-> nid])

\* removeBlock(id)
removeBlock(id, at) ==
    /\ blocks' = IF RemoveRefused(readOnly, blocks) THEN blocks
                 ELSE Filtered(blocks, id)
    /\ activeBlockId' = IF RemoveRefused(readOnly, blocks) THEN activeBlockId
                        ELSE FocusAfterRemove(blocks, id, activeBlockId)
    /\ UNCHANGED <<menuOpenBlockId, focusTimers>>
    /\ last' = Call("removeBlock", id, at, ~RemoveRefused(readOnly, blocks), <<>>)

\* ------------------------------------------------------------------ events
Tick == steps < MaxSteps /\ steps' = steps + 1 /\ UNCHANGED readOnly

Event == Tick /\ UNCHANGED others

Positions == 1..Len(blocks)

\* RichText onFocus: () => setActiveBlockId(block.id)
FocusBlock ==
    \E i \in Positions :
        /\ Event
        /\ IsText(blocks[i].type)
        /\ activeBlockId # blocks[i].id
        /\ activeBlockId' = blocks[i].id
        /\ last' = NoCall
        /\ UNCHANGED <<blocks, menuOpenBlockId, focusTimers>>

\* RichText onKeyDown, Enter without Shift, on the surface holding focus.
KeyEnter ==
    \E i \in Positions, nid \in RandomIds :
        /\ Event
        /\ Len(blocks) < MaxLen
        /\ IsText(blocks[i].type)
        /\ activeBlockId = blocks[i].id
        /\ addBlock(blocks[i].id, Paragraph, nid, i)

\* RichText onKeyDown, Backspace on a block without content.
KeyBackspace ==
    \E i \in Positions :
        /\ Event
        /\ IsText(blocks[i].type)
        /\ activeBlockId = blocks[i].id
        /\ Falsy(blocks[i].content)
        /\ removeBlock(blocks[i].id, i)

\* RichText onInput: handleInput -> commonProps.onChange -> updateBlock.
InputText ==
    \E i \in Positions, val \in Markup :
        /\ Event
        /\ ~readOnly
        /\ IsText(blocks[i].type)
        /\ activeBlockId = blocks[i].id
        /\ val # blocks[i].content
        /\ updateBlock(blocks[i].id, [content |-> val], i)

\* The gutter's plus button: addBlock(block.id)
ClickPlus ==
    \E i \in Positions, nid \in RandomIds :
        /\ Event
        /\ ~readOnly
        /\ Len(blocks) < MaxLen
        /\ addBlock(blocks[i].id, Paragraph, nid, i)

\* "Add block at end": addBlock(blocks[blocks.length-1].id, Paragraph); on an
\* empty sequence the click throws before addBlock is entered.
ClickAddAtEnd ==
    \E nid \in RandomIds :
        /\ Event
        /\ ~readOnly
        /\ Len(blocks) >= 1
        /\ Len(blocks) < MaxLen
        /\ addBlock(blocks[Len(blocks)].id, Paragraph, nid, Len(blocks))

\* The menu trigger: setMenuOpenBlockId(menuOpenBlockId === block.id ? null : block.id)
ToggleMenu ==
    \E i \in Positions :
        /\ Event
        /\ ~readOnly
        /\ menuOpenBlockId' =
               IF menuOpenBlockId = blocks[i].id THEN Null ELSE blocks[i].id
        /\ last' = Call("toggleMenu", blocks[i].id, i, FALSE, <<>>)
        /\ UNCHANGED <<blocks, activeBlockId, focusTimers>>

\* A TypeOption of the open menu: updateBlock(block.id, { type: T })
ClickTypeOption ==
    \E i \in Positions, type \in BlockType :
        /\ Event
        /\ ~readOnly
        /\ menuOpenBlockId = blocks[i].id
        /\ updateBlock(blocks[i].id, [type |-> type], i)

\* "Delete Block" of the open menu: removeBlock(block.id)
ClickDeleteBlock ==
    \E i \in Positions :
        /\ Event
        /\ ~readOnly
        /\ menuOpenBlockId = blocks[i].id
        /\ removeBlock(blocks[i].id, i)

\* handleClickOutside, for a press outside every .block-menu-trigger element.
MouseDownOutside ==
    /\ Event
    /\ menuOpenBlockId # Null
    /\ menuOpenBlockId' = Null
    /\ last' = Call("handleClickOutside", Null, 0, FALSE, <<>>)
    /\ UNCHANGED <<blocks, activeBlockId, focusTimers>>

\* The 10 ms timer of addBlock: setActiveBlockId(newBlock.id)
FocusTimerFire ==
    \E id \in focusTimers :
        /\ activeBlockId' = id
        /\ focusTimers' = focusTimers \ {id}
        /\ last' = NoCall
        /\ UNCHANGED <<readOnly, blocks, menuOpenBlockId, steps, others>>

\* MediaBlock's embed field (empty state of a video block) losing focus.
EmbedUrlBlur ==
    \E i \in Positions, url \in EmbedUrls :
        /\ Event
        /\ blocks[i].type = Video
        /\ Falsy(blocks[i].src) /\ Falsy(blocks[i].content)
        /\ updateBlock(blocks[i].id, [src |-> ToEmbedUrl(url)], i)

Next ==
    \/ FocusBlock
    \/ KeyEnter
    \/ KeyBackspace
    \/ InputText
    \/ ClickPlus
    \/ ClickAddAtEnd
    \/ ToggleMenu
    \/ ClickTypeOption
    \/ ClickDeleteBlock
    \/ MouseDownOutside
    \/ FocusTimerFire
    \/ EmbedUrlBlur

Spec == Init /\ [][Next]_vars

\* ------------------------------------- the operations as functions (OpSpec)
\* update / insertAfter / remove applied to arguments no control of the
\* rendered editor passes: any id, present or not, and any type.
CallTypes == {Paragraph, Heading1, Image}
CallUpdates ==
    {[content |-> "x"], [type |-> Heading1], [type |-> Image],
     [src |-> "data:image"], [width |-> 50],
     [type |-> Image, src |-> "data:image", content |-> ""]}

Called == steps < MaxCalls /\ steps' = steps + 1 /\ UNCHANGED <<readOnly, others>>

CallUpdateBlock ==
    \E id \in Ids, updates \in CallUpdates :
        Called /\ updateBlock(id, updates, 0)

CallAddBlock ==
    \E afterId \in Ids, type \in CallTypes, nid \in RandomIds :
        Called /\ Len(blocks) < MaxLen /\ addBlock(afterId, type, nid, 0)

CallRemoveBlock ==
    \E id \in Ids :
        Called /\ removeBlock(id, 0)

OpNext ==
    \/ CallUpdateBlock
    \/ CallAddBlock
    \/ CallRemoveBlock
    \/ FocusTimerFire

OpSpec == Init /\ [][OpNext]_vars

\* ----------------------------------------------- media blocks (ResizeSpec)
\* MOCK_POSTS[0].blocks: the post the admin opens in the editor.
SeedBlocks ==
    << [id |-> "b1", type |-> Heading1, content |-> "Arrival in Arashiyama",
        src |-> Undefined, width |-> FullWidth, align |-> Undefined],
       [id |-> "b2", type |-> Paragraph, content |-> "The morning mist",
        src |-> Undefined, width |-> FullWidth, align |-> Undefined],
       [id |-> "b3", type |-> Image, content |-> "",
        src |-> "https://images.unsplash.com/photo-1624253321171-1be53e12f5f4",
        width |-> FullWidth, align |-> Undefined],
       [id |-> "b4", type |-> Quote, content |-> "Beauty lies in the spaces",
        src |-> Undefined, width |-> FullWidth, align |-> Undefined] >>

\* Pixel values of the layout and of the pointer. The parent widths divide
\* every multiple of 100, so each requested percentage is a whole number.
ParentOffsets == {0, 4, 10}
StartWidths == {0, 2, 10}
ClientXs == {0, 1, 3, 15, 40}
Alignments == {"left", "center", "right"}

Min(a, b) == IF a <= b THEN a ELSE b
Max(a, b) == IF a >= b THEN a ELSE b

\* containerRef.current?.parentElement?.offsetWidth || 1
ParentWidth(offset) == IF offset = 0 THEN 1 ELSE offset

\* Mutant of ResizeWidth: the lower clamp is missing.
ResizeWidthNoFloor(startWidth, diff, parentWidth) ==
    Min(100, ((startWidth + diff) * 100) \div parentWidth)

\* onMouseMove: Math.min(100, Math.max(20, (newWidthPx / parentWidth) * 100))
ResizeWidth(startWidth, diff, parentWidth) ==
    Min(100, Max(20, ((startWidth + diff) * 100) \div parentWidth))

IsMedia(type) == type \in {Image, Video}

\* MediaBlock leaves the empty state: !(!block.src && !block.content)
Populated(b) == ~(Falsy(b.src) /\ Falsy(b.content))

\* What one registered onMouseMove writes for a pointer at clientX.
ResizeWrite(d, clientX) ==
    [id |-> d.id, startWidth |-> d.startWidth, parentOffset |-> d.parentOffset,
     delta |-> clientX - d.startX,
     width |-> ResizeWidth(d.startWidth, clientX - d.startX, d.parentWidth)]

\* No mouseup has reached the window since the last press on a resize
\* handle.
Held == "held" \in DOMAIN last /\ last.held

Pointer ==
    steps < MaxMoves /\ steps' = steps + 1
    /\ UNCHANGED <<readOnly, surface, toolbar>>

\* The resize handle's onMouseDown: handleResize registers its listeners,
\* which keep the updateBlock, and so the blocks, of this render.
ResizeMouseDown ==
    \E i \in Positions, x \in ClientXs, sw \in StartWidths, po \in ParentOffsets :
        /\ Pointer
        /\ ~readOnly
        /\ IsMedia(blocks[i].type) /\ Populated(blocks[i])
        /\ Len(drags) < MaxDrags
        /\ drags' = Append(drags,
               [id |-> blocks[i].id, blocks |-> blocks, startX |-> x,
                startWidth |-> sw, parentOffset |-> po,
                parentWidth |-> ParentWidth(po)])
        /\ last' = Call("handleResize", blocks[i].id, i, FALSE,
                        [held |-> TRUE])
        /\ UNCHANGED <<blocks, activeBlockId, menuOpenBlockId, focusTimers>>

\* A mousemove on the window: every registered onMouseMove runs, each calls
\* the updateBlock it kept; the host keeps what the last one delivered. With
\* no listener registered nothing runs.
ResizeMouseMove ==
    \E x \in ClientXs :
        /\ Pointer
        /\ IF drags = <<>>
           THEN /\ last' = Call("mousemove", Null, 0, FALSE, [held |-> Held])
                /\ UNCHANGED <<blocks, menuOpenBlockId>>
           ELSE LET d == drags[Len(drags)]
                IN  /\ blocks' = MapUpdate(d.blocks, d.id,
                                     [width |-> ResizeWrite(d, x).width])
                    /\ last' = Call("updateBlock", d.id, 0, TRUE,
                               [updates |-> [width |-> ResizeWrite(d, x).width],
                                closure |-> d.blocks,
                                held |-> Held,
                                writes |-> [k \in 1..Len(drags) |->
                                               ResizeWrite(drags[k], x)]])
                    /\ menuOpenBlockId' = Null
        /\ UNCHANGED <<activeBlockId, focusTimers, drags>>

\* Mutant of Released: onMouseUp removes no listener.
ReleasedNone(ds) == ds

\* The listeners left after a mouseup on the window: every onMouseUp removes
\* its own onMouseMove and itself.
Released(ds) == <<>>

\* The mouse button is released after a press on a resize handle.
ResizeMouseUp ==
    /\ UNCHANGED <<steps, readOnly, surface, toolbar>>
    /\ Held
    /\ drags' = Released(drags)
    /\ last' = Call("onMouseUp", Null, 0, FALSE, [held |-> FALSE])
    /\ UNCHANGED <<blocks, activeBlockId, menuOpenBlockId, focusTimers>>

\* The alignment buttons of a populated media block. The mouseup of the
\* click reaches the window before onClick runs.
MediaAlignClick ==
    \E i \in Positions, a \in Alignments :
        /\ Pointer /\ drags' = Released(drags)
        /\ ~readOnly
        /\ IsMedia(blocks[i].type) /\ Populated(blocks[i])
        /\ updateBlock(blocks[i].id, [align |-> a], i)

ResizeInit ==
    /\ readOnly \in BOOLEAN
    /\ blocks = SeedBlocks
    /\ activeBlockId = Null
    /\ menuOpenBlockId = Null
    /\ focusTimers = {}
    /\ steps = 0
    /\ last = NoCall
    /\ drags = <<>>
    /\ SurfaceStart

ResizeNext ==
    \/ ResizeMouseDown
    \/ ResizeMouseMove
    \/ ResizeMouseUp
    \/ MediaAlignClick

ResizeSpec == ResizeInit /\ [][ResizeNext]_vars

\* ---------------------------------------------------------------- surfaces
\* The editor of a new post, every handler with the render and the effects
\* that follow it: what each RichText element shows and which one holds the
\* focus. Block ids are the React keys, so the ids drawn here are fresh.
ImageData == {"data:image/png;base64,AA"}
Prompts == {"", "p"}
AiTexts == {"", "g", "~~~g~~~"}

\* Mutant of PasteUpdates: the conversion keeps the text of the block.
PasteUpdatesKeepContent(src) == [type |-> Image, src |-> src]

\* handlePaste: { type: BlockType.Image, src: event.target?.result, content: '' }
PasteUpdates(src) == [type |-> Image, src |-> src, content |-> ""]

\* String.prototype.trim
Trim(p) == IF p = " " THEN "" ELSE p

\* onBlur: handleInput of the element that loses the focus.
Blurred(bs, f, d) == IF f = Null THEN bs ELSE Written(bs, f, [content |-> d[f]])

BlurCall(f, d) ==
    Call("blur", f, 0, ~readOnly,
         [updates |-> [content |-> d[f]], dom |-> d, deferred |-> deferred])

Edit ==
    steps < MaxEdits /\ steps' = steps + 1 /\ UNCHANGED <<readOnly, drags, toolbar>>

Async == UNCHANGED <<steps, readOnly, drags, toolbar>>

AiIdle == UNCHANGED <<showAiModal, aiPrompt, isGenerating>>

\* The render after a handler that left the sequence nb, the active id na
\* and the menu nm, the focus being on f and the elements showing d; then
\* the effects: the [html] sync of every RichText, and the [autoFocus]
\* focus(), whose blur event runs handleInput on the element that had the
\* focus. That write makes the block's content what its element shows, so
\* the render after it changes no element.
Commit(nb, na, nm, f, d, ed, df, call) ==
    LET f1 == IF SameElement(blocks, nb, f) THEN f ELSE Null
        d1 == Reconciled(blocks, nb, d, f1)
        t  == AutoFocused(blocks, nb, activeBlockId, na)
        blurred == t # Null /\ f1 # Null /\ f1 # t /\ ~readOnly
        nb2 == IF blurred THEN MapUpdate(nb, f1, [content |-> d1[f1]]) ELSE nb
        nf  == IF t # Null THEN t ELSE f1
    IN  /\ blocks' = nb2
        /\ dom' = d1
        /\ domFocus' = nf
        /\ activeBlockId' = na
        /\ menuOpenBlockId' = IF blurred THEN Null ELSE nm
        /\ edits' = [id \in Ids |-> IF id \in IdsOf(nb2) THEN ed[id] ELSE Null]
        /\ deferred' = [id \in Ids |->
                           IF id = nf /\ id = f1 THEN df[id] ELSE Null]
        /\ last' = IF blurred THEN BlurCall(f1, d1) ELSE call

\* The content an asynchronous completion leaves in the block of the focused
\* element, when that differs from what the block held and the element shows.
Met(nb, df) ==
    IF /\ SameElement(blocks, nb, domFocus)
       /\ BlockOf(nb, domFocus).content # BlockOf(blocks, domFocus).content
       /\ BlockOf(nb, domFocus).content # dom[domFocus]
    THEN [df EXCEPT ![domFocus] = BlockOf(nb, domFocus).content]
    ELSE df

External(p, updates) ==
    Call("external", p.id, 0, ~readOnly,
         [updates |-> updates, closure |-> p.blocks, dom |-> dom,
          focus |-> domFocus])

\* A click into the RichText of another block: blur there, focus here
\* (onFocus: setActiveBlockId), and the document's mousedown closes the menu.
SurfFocus ==
    \E i \in Positions :
        /\ Edit /\ AiIdle
        /\ ~readOnly
        /\ IsText(blocks[i].type)
        /\ blocks[i].id # domFocus
        /\ Commit(Blurred(blocks, domFocus, dom), blocks[i].id, Null,
                  blocks[i].id, dom, edits, NoMarkup,
                  IF domFocus # Null THEN BlurCall(domFocus, dom)
                  ELSE Call("focus", blocks[i].id, i, FALSE, <<>>))
        /\ UNCHANGED <<focusTimers, pending>>

\* A click on the page outside every control: the focused element blurs.
SurfBlur ==
    /\ Async /\ AiIdle
    /\ domFocus # Null
    /\ Commit(Blurred(blocks, domFocus, dom), activeBlockId, Null, Null, dom,
              edits, NoMarkup, BlurCall(domFocus, dom))
    /\ UNCHANGED <<focusTimers, pending>>

\* onInput: handleInput after the browser changed the element to v.
SurfInput ==
    \E v \in Markup :
        /\ Edit /\ AiIdle
        /\ domFocus # Null
        /\ v # dom[domFocus]
        /\ Commit(Written(blocks, domFocus, [content |-> v]), activeBlockId,
                  IF readOnly THEN menuOpenBlockId ELSE Null, domFocus,
                  [dom EXCEPT ![domFocus] = v],
                  [edits EXCEPT ![domFocus] = v],
                  [deferred EXCEPT ![domFocus] = Null],
                  Call("input", domFocus, FindIndex(blocks, domFocus) + 1,
                       ~readOnly, [updates |-> [content |-> v]]))
        /\ UNCHANGED <<focusTimers, pending>>

\* onKeyDown, Enter: addBlock(block.id, Paragraph).
SurfEnter ==
    \E nid \in RandomIds \ IdsOf(blocks) :
        /\ Edit /\ AiIdle
        /\ ~readOnly
        /\ domFocus \in IdsOf(blocks)
        /\ focusTimers' = focusTimers \cup {nid}
        /\ Commit(Spliced(blocks, domFocus, NewBlock(nid, Paragraph)),
                  activeBlockId, menuOpenBlockId, domFocus, dom, edits,
                  deferred,
                  Call("addBlock", domFocus, FindIndex(blocks, domFocus) + 1,
                       TRUE, [type |-> Paragraph, nid |-> nid]))
        /\ UNCHANGED pending

\* addBlock's setTimeout(() => setActiveBlockId(newBlock.id), 10)
SurfFocusTimerFire ==
    \E id \in focusTimers :
        /\ Async /\ AiIdle
        /\ focusTimers' = focusTimers \ {id}
        /\ Commit(blocks, id, menuOpenBlockId, domFocus, dom, edits, deferred,
                  Call("timer", id, 0, FALSE, <<>>))
        /\ UNCHANGED pending

\* onKeyDown, Backspace on a block whose content prop is empty: removeBlock.
SurfBackspace ==
    /\ Edit /\ AiIdle
    /\ domFocus \in IdsOf(blocks)
    /\ Falsy(BlockOf(blocks, domFocus).content)
    /\ ~RemoveRefused(readOnly, blocks)
    /\ Commit(Filtered(blocks, domFocus),
              FocusAfterRemove(blocks, domFocus, activeBlockId),
              menuOpenBlockId, domFocus, dom, edits, deferred,
              Call("removeBlock", domFocus, FindIndex(blocks, domFocus) + 1,
                   TRUE, <<>>))
    /\ UNCHANGED <<focusTimers, pending>>

\* handlePaste with an image item: the default paste is prevented and a
\* FileReader is started, its onload keeping this render's updateBlock.
SurfPasteImage ==
    \E src \in ImageData :
        /\ Edit /\ AiIdle
        /\ domFocus \in IdsOf(blocks)
        /\ pending' = Append(pending,
               [kind |-> "paste", id |-> domFocus, blocks |-> blocks,
                src |-> src])
        /\ last' = Call("handlePaste", domFocus,
                        FindIndex(blocks, domFocus) + 1, FALSE,
                        [src |-> src, dom |-> dom])
        /\ UNCHANGED <<blocks, activeBlockId, menuOpenBlockId, focusTimers,
                       dom, domFocus, edits, deferred>>

\* reader.onload: updateBlock(id, { type: Image, src, content: '' }) of the
\* render that started the read.
PasteLoaded ==
    \E k \in 1..Len(pending) :
        /\ Async /\ AiIdle
        /\ pending[k].kind = "paste"
        /\ pending' = Without(pending, k)
        /\ LET p   == pending[k]
               upd == PasteUpdates(p.src)
               nb  == Written(p.blocks, p.id, upd)
           IN  Commit(nb, activeBlockId,
                      IF readOnly THEN menuOpenBlockId ELSE Null, domFocus,
                      dom, [edits EXCEPT ![p.id] = Null], Met(nb, deferred),
                      External(p, upd))
        /\ UNCHANGED focusTimers

\* The AI WRITER button of the active, empty paragraph: the modal opens and
\* its input takes the focus (autoFocus).
AiButtonClick ==
    \E i \in Positions :
        /\ Edit
        /\ ~readOnly
        /\ activeBlockId = blocks[i].id
        /\ blocks[i].type = Paragraph
        /\ Falsy(blocks[i].content)
        /\ showAiModal' = blocks[i].id
        /\ Commit(Blurred(blocks, domFocus, dom), activeBlockId, Null, Null,
                  dom, edits, NoMarkup,
                  IF domFocus # Null THEN BlurCall(domFocus, dom)
                  ELSE Call("setShowAiModal", blocks[i].id, i, FALSE, <<>>))
        /\ UNCHANGED <<aiPrompt, isGenerating, focusTimers, pending>>

\* Typing into the modal's input, which holds the focus for it.
AiPromptChange ==
    \E v \in Prompts :
        /\ Async
        /\ showAiModal \in IdsOf(blocks)
        /\ v # aiPrompt
        /\ aiPrompt' = v
        /\ Commit(Blurred(blocks, domFocus, dom), activeBlockId,
                  menuOpenBlockId, Null, dom, edits, NoMarkup,
                  IF domFocus # Null THEN BlurCall(domFocus, dom)
                  ELSE Call("setAiPrompt", showAiModal, 0, FALSE, <<>>))
        /\ UNCHANGED <<showAiModal, isGenerating, focusTimers, pending>>

\* The modal's close button.
AiClose ==
    /\ Edit
    /\ showAiModal \in IdsOf(blocks)
    /\ showAiModal' = Null
    /\ Commit(Blurred(blocks, domFocus, dom), activeBlockId, Null, Null, dom,
              edits, NoMarkup,
              IF domFocus # Null THEN BlurCall(domFocus, dom)
              ELSE Call("setShowAiModal", Null, 0, FALSE, <<>>))
    /\ UNCHANGED <<aiPrompt, isGenerating, focusTimers, pending>>

\* handleAiGenerate up to its await (Enter in the input, or the Generate
\* button): the continuation keeps this render's updateBlock.
AiGenerate ==
    /\ Edit
    /\ showAiModal \in IdsOf(blocks)
    /\ Trim(aiPrompt) # ""
    /\ isGenerating' = TRUE
    /\ pending' = Append(pending,
           [kind |-> "ai", id |-> showAiModal,
            blocks |-> Blurred(blocks, domFocus, dom), src |-> Undefined])
    /\ Commit(Blurred(blocks, domFocus, dom), activeBlockId, menuOpenBlockId,
              Null, dom, edits, NoMarkup,
              IF domFocus # Null THEN BlurCall(domFocus, dom)
              ELSE Call("handleAiGenerate", showAiModal, 0, FALSE, <<>>))
    /\ UNCHANGED <<showAiModal, aiPrompt, focusTimers>>

\* handleAiGenerate after its await: updateBlock(targetBlockId, { content:
\* cleanText }) of the render that started it, then the modal is reset.
AiGenerated ==
    \E k \in 1..Len(pending), text \in AiTexts :
        /\ Async
        /\ pending[k].kind = "ai"
        /\ pending' = Without(pending, k)
        /\ isGenerating' = FALSE
        /\ showAiModal' = Null
        /\ aiPrompt' = ""
        /\ LET p   == pending[k]
               upd == [content |-> CleanText(text)]
               nb  == Written(p.blocks, p.id, upd)
           IN  Commit(nb, activeBlockId,
                      IF readOnly THEN menuOpenBlockId ELSE Null, domFocus,
                      dom, [edits EXCEPT ![p.id] = Null], Met(nb, deferred),
                      External(p, upd))
        /\ UNCHANGED focusTimers

SurfaceInit ==
    /\ readOnly = FALSE
    /\ blocks = <<FirstBlock>>
    /\ activeBlockId = Null
    /\ menuOpenBlockId = Null
    /\ focusTimers = {}
    /\ steps = 0
    /\ last = NoCall
    /\ drags = <<>>
    /\ SurfaceStart

SurfaceNext ==
    \/ SurfFocus
    \/ SurfBlur
    \/ SurfInput
    \/ SurfEnter
    \/ SurfFocusTimerFire
    \/ SurfBackspace
    \/ SurfPasteImage
    \/ PasteLoaded
    \/ AiButtonClick
    \/ AiPromptChange
    \/ AiClose
    \/ AiGenerate
    \/ AiGenerated

SurfaceSpec == SurfaceInit /\ [][SurfaceNext]_vars

\* ---------------------------------------------------------------- AI writer
\* The AI modal of the editor of a new post, with what generateBlogContent
\* can resolve to: no API key, a thrown call, a response without text, an
\* empty text, a text.
AiResults == {"no key", "thrown", Undefined, "", "g"}
AiFailed(r) == r \in {"no key", "thrown"}
AiEmpty(r) == r \in {Undefined, ""}

\* generateBlogContent: the string its promise resolves to. It never rejects.
generateBlogContent(r) ==
    CASE r = "no key" -> "Error: API Key missing."
      [] r = "thrown" -> "Failed to generate content. Please try again."
      [] Falsy(r) -> ""
      [] OTHER -> r

\* What Enter in the prompt field needs to start a call: only
\* handleAiGenerate's own check of the prompt.
AiStartable(generating, prompt) == Trim(prompt) # ""

\* handleAiGenerate(targetBlockId) up to its await.
handleAiGenerate(targetBlockId) ==
    /\ Edit
    /\ isGenerating' = TRUE
    /\ pending' = Append(pending,
           [kind |-> "ai", id |-> targetBlockId,
            blocks |-> Blurred(blocks, domFocus, dom), src |-> Undefined])
    /\ Commit(Blurred(blocks, domFocus, dom), activeBlockId, menuOpenBlockId,
              Null, dom, edits, NoMarkup,
              IF domFocus # Null THEN BlurCall(domFocus, dom)
              ELSE Call("handleAiGenerate", targetBlockId, 0, FALSE, <<>>))
    /\ UNCHANGED <<showAiModal, aiPrompt, focusTimers>>

\* Enter in the prompt field: e.key === 'Enter' && handleAiGenerate(block.id)
AiEnterKey ==
    /\ showAiModal \in IdsOf(blocks)
    /\ AiStartable(isGenerating, aiPrompt)
    /\ handleAiGenerate(showAiModal)

\* The Generate button, disabled={isGenerating || !aiPrompt}.
AiGenerateClick ==
    /\ showAiModal \in IdsOf(blocks)
    /\ ~(isGenerating \/ aiPrompt = "")
    /\ Trim(aiPrompt) # ""
    /\ handleAiGenerate(showAiModal)

\* handleAiGenerate after its await, the call having resolved from r.
AiReturned ==
    \E k \in 1..Len(pending), r \in AiResults :
        /\ Async
        /\ pending[k].kind = "ai"
        /\ pending' = Without(pending, k)
        /\ isGenerating' = FALSE
        /\ showAiModal' = Null
        /\ aiPrompt' = ""
        /\ LET p   == pending[k]
               upd == [content |-> CleanText(generateBlogContent(r))]
               nb  == Written(p.blocks, p.id, upd)
           IN  Commit(nb, activeBlockId,
                      IF readOnly THEN menuOpenBlockId ELSE Null, domFocus,
                      dom, [edits EXCEPT ![p.id] = Null], Met(nb, deferred),
                      Call("generated", p.id, 0, ~readOnly,
                           [updates |-> upd, closure |-> p.blocks,
                            result |-> r]))
        /\ UNCHANGED focusTimers

AiNext ==
    \/ SurfFocus
    \/ SurfInput
    \/ AiButtonClick
    \/ AiPromptChange
    \/ AiClose
    \/ AiEnterKey
    \/ AiGenerateClick
    \/ AiReturned

AiSpec == SurfaceInit /\ [][AiNext]_vars

\* ------------------------------------------------------------------ retype
\* The editor of a new post with the type-switch menu: what the RichText
\* elements show when the type of a block, and with it the tagName of its
\* element, changes.
TextTypes == {Paragraph, Heading1, Heading2, Quote}

\* A press and click on the menu trigger of a block: the focused element
\* blurs (handleInput, whose updateBlock closes the menu), then the click
\* toggles the menu of the block.
SurfToggleMenu ==
    \E i \in Positions :
        /\ Edit /\ AiIdle
        /\ ~readOnly
        /\ Commit(Blurred(blocks, domFocus, dom), activeBlockId,
                  IF domFocus = Null /\ menuOpenBlockId = blocks[i].id
                  THEN Null ELSE blocks[i].id,
                  Null, dom, edits, NoMarkup,
                  IF domFocus # Null THEN BlurCall(domFocus, dom)
                  ELSE Call("toggleMenu", blocks[i].id, i, FALSE, <<>>))
        /\ UNCHANGED <<focusTimers, pending>>

\* A TypeOption of the open menu: updateBlock(block.id, { type }).
SurfTypeOption ==
    \E i \in Positions, type \in TextTypes :
        /\ Edit /\ AiIdle
        /\ ~readOnly
        /\ menuOpenBlockId = blocks[i].id
        /\ Commit(Written(Blurred(blocks, domFocus, dom), blocks[i].id,
                          [type |-> type]),
                  activeBlockId, Null, Null, dom, edits, NoMarkup,
                  Call("updateBlock", blocks[i].id, i, TRUE,
                       [updates |-> [type |-> type], dom |-> dom]))
        /\ UNCHANGED <<focusTimers, pending>>

RetypeNext ==
    \/ SurfFocus
    \/ SurfBlur
    \/ SurfInput
    \/ SurfToggleMenu
    \/ SurfTypeOption

RetypeSpec == SurfaceInit /\ [][RetypeNext]_vars

\* ----------------------------------------------------------------- toolbar
\* The editor opened on a saved post of one paragraph that holds text: the
\* document's selection, the floating toolbar and its formatting commands.
SavedBlocks == <<[FirstBlock EXCEPT !.content = "x"]>>

Selections == {"collapsed", "outside"} \cup Ids
Commands == {"bold", "italic", "underline", "createLink", "justifyLeft",
             "justifyCenter", "justifyRight"}
\* TEXT_COLORS: two of its seven values.
TextColors == {"#292524", "#be185d"}
\* What prompt('Enter link URL:') returns.
PromptUrls == {Null, "", "u"}

\* selection.isCollapsed is false and editorRef contains selection.anchorNode.
InsideEditor(sel) == sel \in IdsOf(blocks)

\* Mutant of ToolbarAfter: a selection outside the editor hides the toolbar.
ToolbarAfterHidesOutside(sel, shown) == sel \in IdsOf(blocks)

\* checkSelection: showToolbar after it ran on the selection sel.
ToolbarAfter(sel, shown) ==
    IF sel = "collapsed" THEN FALSE
    ELSE IF InsideEditor(sel) THEN TRUE
    ELSE shown

\* checkSelection: showColorPicker after it ran on the selection sel.
ColorPickerAfter(sel, shown) == IF sel = "collapsed" THEN FALSE ELSE shown

\* document.execCommand(cmd, false, value) on the selected text x.
Tagged(cmd, value) ==
    CASE cmd = "bold" -> "<b>x</b>"
      [] cmd = "italic" -> "<i>x</i>"
      [] cmd = "underline" -> "<u>x</u>"
      [] cmd = "createLink" -> "<a href=u>x</a>"
      [] cmd = "justifyLeft" -> "<div style=text-align:left>x</div>"
      [] cmd = "justifyCenter" -> "<div style=text-align:center>x</div>"
      [] cmd = "justifyRight" -> "<div style=text-align:right>x</div>"
      [] cmd = "foreColor" /\ value = "#292524" -> "<font color=#292524>x</font>"
      [] cmd = "foreColor" /\ value = "#be185d" -> "<font color=#be185d>x</font>"

\* The command toggles: run on text it already formatted, it removes the
\* formatting.
Toggles(cmd) == cmd \in {"bold", "italic", "underline"}

\* The markup of an element after document.execCommand on its selected text.
Format(cmd, value, m) ==
    IF Toggles(cmd) /\ m = Tagged(cmd, value) THEN "x" ELSE Tagged(cmd, value)

\* The selected text is plain or holds the command's own formatting.
Formattable(cmd, value, m) == m = "x" \/ m = Tagged(cmd, value)

\* document.getElementById('block-' + id).innerHTML: the markup of the block's
\* wrapper, that is the controls gutter and the content <div> with the
\* RichText element in it, m being that element's innerHTML.
WrapperHTML(m) ==
    CASE m = "" ->
           "<div class=gutter>...</div><div class=content><div contenteditable=true></div></div>"
      [] m = "x" ->
           "<div class=gutter>...</div><div class=content><div contenteditable=true>x</div></div>"
      [] m = "<b>x</b>" ->
           "<div class=gutter>...</div><div class=content><div contenteditable=true><b>x</b></div></div>"
      [] m = "<i>x</i>" ->
           "<div class=gutter>...</div><div class=content><div contenteditable=true><i>x</i></div></div>"
      [] m = "<u>x</u>" ->
           "<div class=gutter>...</div><div class=content><div contenteditable=true><u>x</u></div></div>"
      [] m = "<a href=u>x</a>" ->
           "<div class=gutter>...</div><div class=content><div contenteditable=true><a href=u>x</a></div></div>"
      [] m = "<div style=text-align:left>x</div>" ->
           "<div class=gutter>...</div><div class=content><div contenteditable=true><div style=text-align:left>x</div></div></div>"
      [] m = "<div style=text-align:center>x</div>" ->
           "<div class=gutter>...</div><div class=content><div contenteditable=true><div style=text-align:center>x</div></div></div>"
      [] m = "<div style=text-align:right>x</div>" ->
           "<div class=gutter>...</div><div class=content><div contenteditable=true><div style=text-align:right>x</div></div></div>"
      [] m = "<font color=#292524>x</font>" ->
           "<div class=gutter>...</div><div class=content><div contenteditable=true><font color=#292524>x</font></div></div>"
      [] m = "<font color=#be185d>x</font>" ->
           "<div class=gutter>...</div><div class=content><div contenteditable=true><font color=#be185d>x</font></div></div>"
      [] OTHER ->
           "<div class=gutter>...</div><div class=content><div contenteditable=true>...</div></div>"

Tool ==
    /\ steps < MaxTools /\ steps' = steps + 1
    /\ UNCHANGED <<readOnly, drags, focusTimers, pending, showAiModal,
                   aiPrompt, isGenerating>>

\* A click into the RichText of a block: blur, focus, and the caret replaces
\* the selection, which checkSelection sees.
ToolFocus ==
    \E i \in Positions :
        /\ Tool
        /\ ~readOnly
        /\ IsText(blocks[i].type)
        /\ blocks[i].id # domFocus
        /\ selection' = "collapsed"
        /\ showToolbar' = ToolbarAfter("collapsed", showToolbar)
        /\ showColorPicker' = ColorPickerAfter("collapsed", showColorPicker)
        /\ Commit(Blurred(blocks, domFocus, dom), blocks[i].id, Null,
                  blocks[i].id, dom, edits, NoMarkup,
                  IF domFocus # Null THEN BlurCall(domFocus, dom)
                  ELSE Call("focus", blocks[i].id, i, FALSE, <<>>))

\* A selectionchange event of the document; the listener is registered only
\* if the editor is not read-only.
SelectionChange ==
    \E sel \in Selections :
        /\ Tool
        /\ sel \in Ids => Mounted(blocks, sel)
        /\ selection' = sel
        /\ showToolbar' = IF readOnly THEN showToolbar
                          ELSE ToolbarAfter(sel, showToolbar)
        /\ showColorPicker' = IF readOnly THEN showColorPicker
                              ELSE ColorPickerAfter(sel, showColorPicker)
        /\ last' = Call("checkSelection", sel, 0, FALSE,
                        [shown |-> showToolbar])
        /\ UNCHANGED <<blocks, activeBlockId, menuOpenBlockId, dom, domFocus,
                       edits, deferred>>

\* execCommand(cmd, value): document.execCommand changes the element that
\* holds the selection, whose input event runs handleInput; then the
\* innerHTML of the active block's wrapper is written as its content. Both
\* writes use this render's blocks, the host keeps the last one.
execCommand(cmd, value) ==
    LET sel == selection
        hit == Mounted(blocks, sel)
        d1  == IF hit THEN [dom EXCEPT ![sel] = Format(cmd, value, dom[sel])]
               ELSE dom
        b1  == IF hit THEN Written(blocks, sel, [content |-> d1[sel]])
               ELSE blocks
        el  == activeBlockId # Null /\ activeBlockId \in IdsOf(blocks)
        html == IF Mounted(blocks, activeBlockId)
                THEN WrapperHTML(d1[activeBlockId]) ELSE WrapperHTML(Null)
        b2  == IF el THEN Written(blocks, activeBlockId, [content |-> html])
               ELSE b1
    IN  /\ hit => Formattable(cmd, value, dom[sel])
        /\ Commit(b2, activeBlockId,
                  IF (hit \/ el) /\ ~readOnly THEN Null ELSE menuOpenBlockId,
                  domFocus, d1,
                  IF hit THEN [edits EXCEPT ![sel] = d1[sel]] ELSE edits,
                  deferred,
                  Call("execCommand", activeBlockId, 0, ~readOnly /\ el,
                       [command |-> cmd, dom |-> d1, selection |-> sel]))

\* A ToolbarBtn of a formatting command (its onMouseDown prevents the
\* default, so focus and selection stay); the link button asks for the URL.
ToolbarFormat ==
    \E cmd \in Commands, url \in PromptUrls :
        /\ Tool
        /\ showToolbar /\ ~readOnly
        /\ IF cmd = "createLink" THEN ~Falsy(url) /\ url # Null ELSE url = Null
        /\ execCommand(cmd, url)
        /\ UNCHANGED toolbar

\* The palette ToolbarBtn: setShowColorPicker(!showColorPicker).
ColorPickerToggle ==
    /\ Tool
    /\ showToolbar /\ ~readOnly
    /\ showColorPicker' = ~showColorPicker
    /\ menuOpenBlockId' = Null
    /\ last' = Call("setShowColorPicker", Null, 0, FALSE, <<>>)
    /\ UNCHANGED <<blocks, activeBlockId, dom, domFocus, edits, deferred,
                   showToolbar, selection>>

\* A color button of the sub-panel: execCommand('foreColor', c.value), then
\* setShowColorPicker(false).
ColorPick ==
    \E c \in TextColors :
        /\ Tool
        /\ showToolbar /\ showColorPicker /\ ~readOnly
        /\ execCommand("foreColor", c)
        /\ showColorPicker' = FALSE
        /\ UNCHANGED <<showToolbar, selection>>

\* A mouse press on the page outside the editor: handleClickOutside, the
\* blur of the focused element, and the selection kept or collapsed.
PressOutsideEditor ==
    \E sel \in {selection, "collapsed"} :
        /\ Tool
        /\ selection' = sel
        /\ showToolbar' = FALSE
        /\ showColorPicker' =
               IF showToolbar THEN FALSE
               ELSE IF readOnly \/ sel = selection THEN showColorPicker
               ELSE ColorPickerAfter(sel, showColorPicker)
        /\ Commit(Blurred(blocks, domFocus, dom), activeBlockId, Null, Null,
                  dom, edits, NoMarkup,
                  IF domFocus # Null THEN BlurCall(domFocus, dom)
                  ELSE Call("handleClickOutside", Null, 0, FALSE, <<>>))

\* The pointer moves onto a block or off it: onMouseEnter / onMouseLeave of
\* the block's wrapper, setHoveredBlockId(block.id) or (null). The hovered id
\* only picks the opacity class of the block's gutter.
HoverBlock ==
    \E id \in IdsOf(blocks) \cup {Null} :
        /\ Tool
        /\ ~readOnly
        /\ last' = Call("setHoveredBlockId", id, 0, FALSE, <<>>)
        /\ UNCHANGED <<blocks, activeBlockId, menuOpenBlockId, dom, domFocus,
                       edits, deferred, toolbar>>

ToolbarInit ==
    /\ readOnly \in BOOLEAN
    /\ blocks = SavedBlocks
    /\ activeBlockId = Null
    /\ menuOpenBlockId = Null
    /\ focusTimers = {}
    /\ steps = 0
    /\ last = NoCall
    /\ drags = <<>>
    /\ SurfaceStart

ToolbarNext ==
    \/ ToolFocus
    \/ SelectionChange
    \/ ToolbarFormat
    \/ ColorPickerToggle
    \/ ColorPick
    \/ PressOutsideEditor
    \/ HoverBlock

ToolbarSpec == ToolbarInit /\ [][ToolbarNext]_vars

\* ---------------------------------------------------------------- read-only
\* The public page of a post (PostDetailView): the editor with readOnly, on a
\* published post that also holds a video block, an image block and a
\* paragraph left empty.
\* Every handler that the read-only rendering still binds is tried.
PublishedBlocks ==
    SeedBlocks \o
    << [id |-> "b5", type |-> Video, content |-> "", src |-> Undefined,
        width |-> FullWidth, align |-> "left"],
       [id |-> "b6", type |-> Image, content |-> "", src |-> Undefined,
        width |-> FullWidth, align |-> "left"],
       [id |-> "b7", type |-> Paragraph, content |-> "", src |-> Undefined,
        width |-> FullWidth, align |-> "left"] >>

\* reader.result when the read ends: the data URI, or null after an error.
ReadResults == ImageData \cup {Null}

View ==
    /\ steps < MaxViews /\ steps' = steps + 1
    /\ UNCHANGED <<readOnly, drags, toolbar, dom, domFocus, showAiModal,
                   aiPrompt, isGenerating, edits, deferred>>

\* onKeyDown of a RichText, Enter: addBlock(block.id, Paragraph).
ViewKeyEnter ==
    \E i \in Positions, nid \in RandomIds :
        /\ View
        /\ IsText(blocks[i].type)
        /\ addBlock(blocks[i].id, Paragraph, nid, i)
        /\ UNCHANGED pending

\* onKeyDown of a RichText, Backspace on a block without content.
ViewKeyBackspace ==
    \E i \in Positions :
        /\ View
        /\ IsText(blocks[i].type)
        /\ Falsy(blocks[i].content)
        /\ removeBlock(blocks[i].id, i)
        /\ UNCHANGED pending

\* onPaste of a RichText with an image item: handlePaste starts the read.
ViewPasteImage ==
    \E i \in Positions, src \in ImageData :
        /\ View
        /\ IsText(blocks[i].type)
        /\ pending' = Append(pending,
               [kind |-> "paste", id |-> blocks[i].id, blocks |-> blocks,
                src |-> src])
        /\ last' = Call("handlePaste", blocks[i].id, i, FALSE,
                        [src |-> src, dom |-> dom])
        /\ UNCHANGED <<blocks, activeBlockId, menuOpenBlockId, focusTimers>>

\* The file input of an empty image block: the read is started.
ViewChooseFile ==
    \E i \in Positions, result \in ReadResults :
        /\ View
        /\ blocks[i].type = Image
        /\ Falsy(blocks[i].src) /\ Falsy(blocks[i].content)
        /\ pending' = Append(pending,
               [kind |-> "upload", id |-> blocks[i].id, blocks |-> blocks,
                src |-> result])
        /\ last' = Call("chooseFile", blocks[i].id, i, FALSE, <<>>)
        /\ UNCHANGED <<blocks, activeBlockId, menuOpenBlockId, focusTimers>>

\* reader.onload of a paste, reader.onloadend of an upload: the updateBlock
\* of the render that started the read.
ViewReadEnd ==
    \E k \in 1..Len(pending) :
        /\ UNCHANGED <<steps, readOnly, drags, toolbar, dom, domFocus,
                       showAiModal, aiPrompt, isGenerating, edits, deferred>>
        /\ pending' = Without(pending, k)
        /\ LET p   == pending[k]
               upd == IF p.kind = "paste" THEN PasteUpdates(p.src)
                      ELSE [src |-> p.src]
           IN  /\ blocks' = Written(p.blocks, p.id, upd)
               /\ menuOpenBlockId' = IF readOnly THEN menuOpenBlockId ELSE Null
               /\ last' = External(p, upd)
        /\ UNCHANGED <<activeBlockId, focusTimers>>

\* The embed field of an empty video block loses the focus.
ViewEmbedUrlBlur ==
    \E i \in Positions, url \in EmbedUrls :
        /\ View
        /\ blocks[i].type = Video
        /\ Falsy(blocks[i].src) /\ Falsy(blocks[i].content)
        /\ updateBlock(blocks[i].id, [src |-> ToEmbedUrl(url)], i)
        /\ UNCHANGED pending

ReadOnlyInit ==
    /\ readOnly = TRUE
    /\ blocks = PublishedBlocks
    /\ activeBlockId = Null
    /\ menuOpenBlockId = Null
    /\ focusTimers = {}
    /\ steps = 0
    /\ last = NoCall
    /\ drags = <<>>
    /\ dom = NoMarkup
    /\ domFocus = Null
    /\ pending = <<>>
    /\ showAiModal = Null
    /\ aiPrompt = ""
    /\ isGenerating = FALSE
    /\ edits = NoMarkup
    /\ deferred = NoMarkup
    /\ showToolbar = FALSE
    /\ showColorPicker = FALSE
    /\ selection = "collapsed"

ReadOnlyNext ==
    \/ ViewKeyEnter
    \/ ViewKeyBackspace
    \/ ViewPasteImage
    \/ ViewChooseFile
    \/ ViewReadEnd
    \/ ViewEmbedUrlBlur

ReadOnlySpec == ReadOnlyInit /\ [][ReadOnlyNext]_vars

\* ------------------------------------------------------------------ render
\* The page of a post shows stored blocks. The stored type of a block is a
\* string: it may be one that the BlockType enum of this build does not have.
UnknownType == "callout"
KnownTypes ==
    {Paragraph, Heading1, Heading2, Heading3, Image, Video, Quote, List,
     OrderedList, Code, Divider}
StoredTypes == {Paragraph, Heading1, List, Image, Divider, UnknownType}
StoredContents == {"", "x"}

\* The posts of at most MaxLen blocks, the k-th block under the id "b<k>".
StoredBlock(k, type, content) ==
    [id |-> "b" \o ToString(k), type |-> type, content |-> content,
     src |-> Undefined, width |-> FullWidth, align |-> "left"]
StoredPosts ==
    UNION { { [k \in 1..n |-> StoredBlock(k, t[k], c[k])] :
                t \in [1..n -> StoredTypes], c \in [1..n -> StoredContents] } :
            n \in 1..MaxLen }

\* What a block becomes on the page: the element and the markup it shows.
Nothing == [el |-> "null", html |-> ""]
Element(el, html) == [el |-> el, html |-> html]

\* A read-only RichText: the element of the tagName, its innerHTML set to
\* the html prop by the effect that runs on mount.
RichText(tagName, html) == Element(tagName, html)

\* MediaBlock: the upload prompt while the block has neither src nor content,
\* else the <img> or the <iframe> of src.
MediaBlock(b, isVideo) ==
    IF Falsy(b.src) /\ Falsy(b.content)
    THEN Element("prompt", "")
    ELSE Element(IF isVideo THEN "iframe" ELSE "img", b.src)

\* renderBlockContent: the switch on block.type. Paragraph has no case of
\* its own: it is rendered by the default case, with every other value.
renderBlockContent(b) ==
    CASE b.type \in {Heading1, Heading2, Heading3} ->
            RichText(TagName(b.type), b.content)
      [] b.type = Quote -> Element("quote", b.content)
      [] b.type = Code -> Element("code", b.content)
      [] b.type = List -> Element("bullet", b.content)
      [] b.type = OrderedList -> Element("ordinal", b.content)
      [] b.type = Image -> MediaBlock(b, FALSE)
      [] b.type = Video -> MediaBlock(b, TRUE)
      [] b.type = Divider -> Element("hr", "")
      [] OTHER -> RichText("div", b.content)

\* The block switch of the earlier PostDetailView: five cases, default null.
DetailBlock(b) ==
    CASE b.type = Heading1 -> Element("h2", b.content)
      [] b.type = Heading2 -> Element("h3", b.content)
      [] b.type = Paragraph -> Element("p", b.content)
      [] b.type = Quote -> Element("blockquote", b.content)
      [] b.type = Image ->
            Element("img", IF Falsy(b.src) THEN "picsum.photos/800/400"
                           ELSE b.src)
      [] OTHER -> Nothing

\* blocks.map of the editor: one rendering per block, in order.
EditorPage(bs) == [i \in 1..Len(bs) |-> renderBlockContent(bs[i])]
\* post.blocks.map of the earlier PostDetailView.
DetailPage(bs) == [i \in 1..Len(bs) |-> DetailBlock(bs[i])]

\* PostDetailView renders <BlockEditor blocks={post.blocks} readOnly />.
RenderPost ==
    /\ readOnly
    /\ last' = Call("render", Null, 0, FALSE, [out |-> EditorPage(blocks)])
    /\ UNCHANGED <<readOnly, blocks, activeBlockId, menuOpenBlockId,
                   focusTimers, steps, others>>

\* The earlier PostDetailView renders post.blocks with its own switch.
RenderPostDetail ==
    /\ last' = Call("renderDetail", Null, 0, FALSE,
                    [out |-> DetailPage(blocks)])
    /\ UNCHANGED <<readOnly, blocks, activeBlockId, menuOpenBlockId,
                   focusTimers, steps, others>>

RenderInit ==
    /\ readOnly = TRUE
    /\ blocks \in StoredPosts
    /\ activeBlockId = Null
    /\ menuOpenBlockId = Null
    /\ focusTimers = {}
    /\ steps = 0
    /\ last = NoCall
    /\ drags = <<>>
    /\ pending = <<>>
    /\ SurfaceStart

RenderNext ==
    \/ RenderPost
    \/ RenderPostDetail

RenderSpec == RenderInit /\ [][RenderNext]_vars


\* ------------------------------------------------------------------ claims
Distinct(bs) == \A i, j \in 1..Len(bs) : i # j => bs[i].id # bs[j].id

Added == last.op = "addBlock" /\ last.delivered
Removed == last.op = "removeBlock" /\ last.delivered
Updated == last.op = "updateBlock" /\ last.delivered

\* C1: every sequence an insert or a remove hands to the host has at least
\* one block.
C1_NeverEmpty == (Added \/ Removed) => Len(blocks) >= 1

\* C1, where the ids of the sequence the operation ran on are pairwise
\* distinct.
C1_NeverEmpty_DistinctIds ==
    ((Added \/ Removed) /\ Distinct(last.pre)) => Len(blocks) >= 1

\* C2: no two blocks of the sequence share an id.
C2_UniqueIds == Distinct(blocks)

\* C3: removeBlock on a sequence of exactly one block changes nothing: the
\* sequence is the same, nothing is delivered to the host and the focused
\* block id is the same.
C3_LastBlockGuard ==
    (last.op = "removeBlock" /\ Len(last.pre) = 1) =>
        /\ blocks = last.pre
        /\ ~last.delivered
        /\ activeBlockId = last.preActive

\* C3's case: removeBlock was called in an editable editor on the only block.
C3_Witness ==
    /\ last.op = "removeBlock"
    /\ ~readOnly
    /\ Len(last.pre) = 1
    /\ last.pre[1].id = last.id

\* C4: addBlock(afterId, type) with afterId at position i gives a sequence
\* one longer with the new block of that type right after position i and the
\* old blocks unchanged in their order.
C4_InsertsAfter ==
    Added =>
        \A i \in 1..Len(last.pre) :
            last.pre[i].id = last.id =>
                /\ Len(blocks) = Len(last.pre) + 1
                /\ blocks[i + 1] = NewBlock(last.nid, last.type)
                /\ Without(blocks, i + 1) = last.pre

\* C4, where the ids of the sequence addBlock ran on are pairwise distinct.
C4_InsertsAfter_DistinctIds ==
    (Added /\ Distinct(last.pre)) =>
        \A i \in 1..Len(last.pre) :
            last.pre[i].id = last.id =>
                /\ Len(blocks) = Len(last.pre) + 1
                /\ blocks[i + 1] = NewBlock(last.nid, last.type)
                /\ Without(blocks, i + 1) = last.pre

\* C5: addBlock with an afterId that no block has appends the new block at
\* the end.
C5_AppendsWhenAbsent ==
    (Added /\ last.id \notin IdsOf(last.pre)) =>
        blocks = Append(last.pre, NewBlock(last.nid, last.type))

\* C6: removeBlock(id) on a sequence of more than one block that holds id
\* gives the sequence without that one block, the others unchanged and in
\* order.
C6_RemovesExactlyOne ==
    (last.op = "removeBlock" /\ ~readOnly /\ Len(last.pre) > 1
        /\ last.id \in IdsOf(last.pre)) =>
        /\ Len(blocks) = Len(last.pre) - 1
        /\ \E k \in 1..Len(last.pre) :
               last.pre[k].id = last.id /\ blocks = Without(last.pre, k)

\* C6, where the ids of the sequence removeBlock ran on are pairwise distinct.
C6_RemovesExactlyOne_DistinctIds ==
    (last.op = "removeBlock" /\ ~readOnly /\ Len(last.pre) > 1
        /\ last.id \in IdsOf(last.pre) /\ Distinct(last.pre)) =>
        /\ Len(blocks) = Len(last.pre) - 1
        /\ \E k \in 1..Len(last.pre) :
               last.pre[k].id = last.id /\ blocks = Without(last.pre, k)

\* C7: removing the block at a position after the first, from a sequence of
\* more than one block, focuses the block that stood right before it.
C7_FocusMovesToPrevious ==
    (last.op = "removeBlock" /\ ~readOnly /\ Len(last.pre) > 1 /\ last.at > 1) =>
        activeBlockId = last.pre[last.at - 1].id

\* C7, where the ids of the sequence removeBlock ran on are pairwise distinct.
C7_FocusMovesToPrevious_DistinctIds ==
    (last.op = "removeBlock" /\ ~readOnly /\ Len(last.pre) > 1 /\ last.at > 1
        /\ Distinct(last.pre)) =>
        activeBlockId = last.pre[last.at - 1].id

\* C8: removing the first block of a sequence of more than one block leaves
\* no focused block, whatever was focused before.
C8_NoFocusAfterRemovingFirst ==
    (last.op = "removeBlock" /\ ~readOnly /\ Len(last.pre) > 1 /\ last.at = 1) =>
        activeBlockId = Null

\* A retype from the type-switch menu.
Retyped == Updated /\ DOMAIN last.updates = {"type"}

\* retype(id, T) of the mutation engine.
Retype(bs, id, type) == MapUpdate(bs, id, [type |-> type])

\* C9: a retype changes no block's id, position, content, src or width and
\* gives the block the chosen type A, for every type; and from the sequence
\* that retype(A) left, retype(B) then retype(A) gives that sequence again,
\* for every type B.
C9_RetypeKeepsFields ==
    Retyped =>
        /\ Len(blocks) = Len(last.pre)
        /\ \A i \in 1..Len(last.pre) :
               /\ blocks[i].id = last.pre[i].id
               /\ blocks[i].content = last.pre[i].content
               /\ blocks[i].src = last.pre[i].src
               /\ blocks[i].width = last.pre[i].width
        /\ blocks[last.at].type = last.updates.type
        /\ \A B \in BlockType :
               Retype(Retype(blocks, last.id, B), last.id, last.updates.type) = blocks

\* C9's case: a block with content, in a sequence of several blocks, was
\* given another type.
C9_Witness ==
    /\ Retyped
    /\ Len(last.pre) >= 2
    /\ last.pre[last.at].content = "x"
    /\ last.pre[last.at].type # last.updates.type
    /\ blocks[last.at].type = last.updates.type

\* C10: updateBlock(id, fields) gives every block with that id the given
\* fields and keeps its other fields, leaves every other block as it was,
\* and with no block of that id delivers the sequence it was given.
C10_UpdateMerges ==
    Updated =>
        /\ Len(blocks) = Len(last.pre)
        /\ \A i \in 1..Len(last.pre) :
               IF last.pre[i].id = last.id
               THEN \A f \in DOMAIN last.pre[i] :
                        blocks[i][f] = IF f \in DOMAIN last.updates
                                       THEN last.updates[f]
                                       ELSE last.pre[i][f]
               ELSE blocks[i] = last.pre[i]
        /\ last.id \notin IdsOf(last.pre) => blocks = last.pre

\* C10's case: updateBlock ran with an id that none of several blocks has.
C10_Witness ==
    /\ Updated
    /\ Len(last.pre) >= 2
    /\ last.id \notin IdsOf(last.pre)
    /\ blocks = last.pre

Resized == last.op = "updateBlock" /\ "writes" \in DOMAIN last

\* The percentage a drag asks for: (startWidth + delta) / containerWidth * 100.
Requested(w) == ((w.startWidth + w.delta) * 100) \div w.parentOffset

\* C11: every width a resize drag writes is max(20, min(100, w)) for the
\* requested percentage w, so it lies in 20..100, and that is the width the
\* block then has.
C11_ResizeClamped ==
    Resized =>
        /\ \A k \in 1..Len(last.writes) :
               LET w == last.writes[k]
               IN  /\ w.parentOffset >= 1 =>
                          w.width = Max(20, Min(100, Requested(w)))
                   /\ w.width >= 20 /\ w.width <= 100
        /\ \A i \in 1..Len(blocks) :
               blocks[i].id = last.id => blocks[i].width = last.updates.width

\* C11's case: a drag asked for less than 20 percent and the block got 20.
C11_Witness ==
    /\ Resized
    /\ \E k \in 1..Len(last.writes) :
           /\ last.writes[k].parentOffset >= 1
           /\ Requested(last.writes[k]) < 20
    /\ \E i \in 1..Len(blocks) : blocks[i].id = last.id /\ blocks[i].width = 20

Completed == last.op = "external" /\ last.delivered
LostFocus == last.op = "blur" /\ last.delivered

C13_DeferredAppliedOnBlur ==
    (LostFocus /\ last.deferred[last.id] # Null) =>
        /\ dom[last.id] = last.deferred[last.id]
        /\ BlockOf(blocks, last.id).content = last.deferred[last.id]

\* C14: an input event leaves the block's content equal to the element's
\* innerHTML, and every block of the sequence holds the markup of its last
\* input event unless a later update named that block.
C14_EditsKept ==
    /\ (last.op = "input" /\ last.delivered) =>
           BlockOf(blocks, last.id).content = dom[last.id]
    /\ \A id \in IdsOf(blocks) :
           edits[id] # Null => BlockOf(blocks, id).content = edits[id]

\* The first half of C14 alone: the write of an input event is immediate.
C14_EditWrittenAtOnce ==
    (last.op = "input" /\ last.delivered) =>
        /\ BlockOf(blocks, last.id).content = dom[last.id]
        /\ dom[last.id] = last.updates.content

PasteRead == Completed /\ "src" \in DOMAIN last.updates

\* The block of the paste as the conversion leaves it: the fields of the
\* block b with type Image, the data URI as src and no content.
Converted(b) ==
    [b EXCEPT !.type = Image, !.src = last.updates.src, !.content = ""]

\* C15: a paste with an image item changes neither the element nor the
\* sequence (the default paste is suppressed), and when the read completes
\* the block that was pasted into is, at the position it had just before,
\* the same block with type Image, the data URI as src and empty content.
C15_PasteConvertsInPlace ==
    /\ last.op = "handlePaste" => (dom = last.dom /\ blocks = last.pre)
    /\ (PasteRead /\ last.id \in IdsOf(last.pre)) =>
           /\ FindIndex(last.pre, last.id) + 1 <= Len(blocks)
           /\ blocks[FindIndex(last.pre, last.id) + 1] =
                  Converted(BlockOf(last.pre, last.id))

\* C15 for a read that completes before anything else changed the sequence:
\* the handler's sequence is still the host's.
C15_PasteConvertsInPlace_FreshClosure ==
    /\ last.op = "handlePaste" => (dom = last.dom /\ blocks = last.pre)
    /\ (PasteRead /\ last.closure = last.pre) =>
           /\ FindIndex(last.pre, last.id) + 1 <= Len(blocks)
           /\ blocks[FindIndex(last.pre, last.id) + 1] =
                  Converted(BlockOf(last.pre, last.id))

\* A paragraph that held text was pasted into and converted.
C15_FreshClosure_Witness ==
    /\ PasteRead
    /\ last.closure = last.pre
    /\ BlockOf(last.pre, last.id).content = "x"
    /\ BlockOf(blocks, last.id).type = Image

\* The positions whose block renders its type-switch menu open
\* (menuOpenBlockId === block.id).
OpenMenus == {i \in 1..Len(blocks) : blocks[i].id = menuOpenBlockId}

\* C16: at most one block shows its menu; after the trigger of a block whose
\* menu was closed is clicked, that block's menu is the one shown; after a
\* mouse press outside every trigger and menu, none is shown.
C16_SingleMenu ==
    /\ Cardinality(OpenMenus) <= 1
    /\ (last.op = "toggleMenu" /\ last.preMenu # last.id) =>
           OpenMenus = {last.at}
    /\ last.op = "handleClickOutside" => OpenMenus = {}

\* C16 on sequences whose ids are pairwise distinct.
C16_SingleMenu_DistinctIds ==
    Distinct(blocks) =>
        /\ Cardinality(OpenMenus) <= 1
        /\ (last.op = "toggleMenu" /\ last.preMenu # last.id) =>
               OpenMenus = {last.at}
        /\ last.op = "handleClickOutside" => OpenMenus = {}

\* C17: after a selectionchange event of an editor that is not read-only,
\* the toolbar is shown exactly if the selection is not collapsed and lies
\* in the editor.
C17_ToolbarFollowsSelection ==
    (last.op = "checkSelection" /\ ~readOnly) =>
        (showToolbar <=> InsideEditor(selection))

\* C17 without the selections that are neither collapsed nor in the editor.
C17_ToolbarFollowsSelection_NotOutside ==
    (last.op = "checkSelection" /\ ~readOnly /\ selection # "outside") =>
        (showToolbar <=> InsideEditor(selection))

\* C18: after a formatting command of the toolbar ran with a block active,
\* the content of that block is the innerHTML of its RichText element.
C18_FormatWritesSurface ==
    (last.op = "execCommand" /\ Mounted(blocks, activeBlockId)) =>
        BlockOf(blocks, activeBlockId).content = dom[activeBlockId]

\* C19: on a read-only editor no handler call invokes onChange and the
\* block sequence stays the one the page was opened with, whatever events
\* and read completions happen.
C19_ReadOnlyNoMutation ==
    readOnly =>
        /\ blocks = PublishedBlocks
        /\ last.op # "none" => ~last.delivered

\* A read started on the read-only page has ended and called updateBlock.
C19_Witness ==
    /\ readOnly
    /\ last.op = "external"
    /\ last.id = "b6"
    /\ steps > 1

\* C19 for the controls of the block sequence (keys, plus, menu, embed
\* field) on the editor of a new post.
C19_ReadOnlyNoMutation_Controls ==
    readOnly =>
        /\ blocks = <<FirstBlock>>
        /\ last.op # "none" => ~last.delivered

\* C19 for the resize handle and the alignment buttons of a media block.
C19_ReadOnlyNoMutation_Media ==
    readOnly =>
        /\ blocks = SeedBlocks
        /\ last.op # "none" => ~last.delivered

Shown == last.op \in {"render", "renderDetail"}
IsKnown(b) == b.type \in KnownTypes
IsSomething(e) == e # Nothing

\* The renderer that produced the page of the last call.
PageOf(bs) == IF last.op = "render" THEN EditorPage(bs) ELSE DetailPage(bs)

\* The blocks of known type show what they show on the page of the same
\* post without the blocks of unknown type.
RestUnaffected ==
    LET rest  == SelectSeq(blocks, IsKnown)
        known == {k \in 1..Len(blocks) : IsKnown(blocks[k])}
        at(i) == CHOOSE k \in known : Cardinality({j \in known : j <= k}) = i
    IN  PageOf(rest) = [i \in 1..Len(rest) |-> last.out[at(i)]]

\* C20: on a rendered read-only page every block whose type is not a known
\* block type shows nothing, and the other blocks show what they show on the
\* page of the same post without the blocks of unknown type.
C20_UnknownRendersNothing ==
    Shown =>
        /\ \A i \in 1..Len(blocks) :
              ~IsKnown(blocks[i]) => last.out[i] = Nothing
        /\ RestUnaffected

\* C20, second half alone, under either renderer.
C20_RestUnaffected == Shown => RestUnaffected

\* C20, first half under the earlier PostDetailView: its default case
\* returns null.
C20_DetailUnknownRendersNothing ==
    last.op = "renderDetail" =>
        \A i \in 1..Len(blocks) :
            ~IsKnown(blocks[i]) => last.out[i] = Nothing

\* A page with a block of unknown type between two of known type was shown
\* by the earlier PostDetailView.
C20_Detail_Witness ==
    /\ last.op = "renderDetail"
    /\ Len(blocks) = 3
    /\ IsKnown(blocks[1]) /\ ~IsKnown(blocks[2]) /\ IsKnown(blocks[3])
    /\ IsSomething(last.out[1])

Generated == last.op = "generated" /\ last.delivered

\* C21: when the generation call failed or gave no text, the content of the
\* target block after the completion is its content before the completion.
C21_FailedGenerationKeepsBlock ==
    (Generated /\ (AiFailed(last.result) \/ AiEmpty(last.result))
       /\ last.id \in IdsOf(last.pre) /\ last.id \in IdsOf(blocks)) =>
        BlockOf(blocks, last.id).content = BlockOf(last.pre, last.id).content

InFlight == {k \in 1..Len(pending) : pending[k].kind = "ai"}

\* C29: at most one generation call is in flight, and when a call has
\* returned isGenerating is false, the modal is closed and the prompt is
\* empty.
C29_SingleGeneration ==
    /\ Cardinality(InFlight) <= 1
    /\ Generated => (~isGenerating /\ showAiModal = Null /\ aiPrompt = "")

\* C29, second half alone: what a returned call leaves of the modal.
C29_ReturnResetsModal ==
    Generated => (~isGenerating /\ showAiModal = Null /\ aiPrompt = "")

\* A call has returned while another one was in flight.
C29_Return_Witness == Generated /\ InFlight # {}

Prompted(b) == renderBlockContent(b) = Element("prompt", "")

\* C22: in an editable editor every Image or Video block without src is
\* rendered as the upload / embed prompt, whatever its other fields hold.
C22_NoSrcShowsPrompt ==
    ~readOnly =>
        \A i \in 1..Len(blocks) :
            (IsMedia(blocks[i].type) /\ Falsy(blocks[i].src)) =>
                Prompted(blocks[i])

\* C22 for the media blocks that hold no content either.
C22_NoSrcShowsPrompt_NoContent ==
    ~readOnly =>
        \A i \in 1..Len(blocks) :
            (IsMedia(blocks[i].type) /\ Falsy(blocks[i].src)
               /\ Falsy(blocks[i].content)) => Prompted(blocks[i])

\* A media block without src and without content is in the sequence.
C22_NoContent_Witness ==
    /\ ~readOnly
    /\ \E i \in 1..Len(blocks) :
          /\ IsMedia(blocks[i].type)
          /\ Falsy(blocks[i].src) /\ Falsy(blocks[i].content)

\* C23: a completion (image read, AI generation) whose block is no longer
\* in the sequence leaves the sequence as it was: the removed block is not
\* back and nothing else changed.
C23_LateCompletionNoOp ==
    (Completed /\ last.id \notin IdsOf(last.pre)) => blocks = last.pre

\* C26: a completion (image read, AI generation) leaves the sequence that
\* was there when it ran, with its update applied to its target block:
\* whatever was inserted, removed, retyped or typed since the action
\* started is still there.
C26_CompletionKeepsSequence ==
    Completed => blocks = MapUpdate(last.pre, last.id, last.updates)

\* C26 for a completion that runs before anything else changed the
\* sequence.
C26_CompletionKeepsSequence_FreshClosure ==
    (Completed /\ last.closure = last.pre) =>
        blocks = MapUpdate(last.pre, last.id, last.updates)

\* An AI generation completed on the sequence it was started on and gave
\* its block a text.
C26_FreshClosure_Witness ==
    /\ Completed
    /\ last.closure = last.pre
    /\ last.updates = [content |-> "g"]
    /\ Len(blocks) = 2

\* The handler calls that a mouse press outside the color sub-panel makes:
\* on a text block (focus, or the blur it causes), on a formatting button,
\* on the palette button, on the page outside the editor.
PressedOutsidePanel ==
    \/ last.op \in {"focus", "blur", "setShowColorPicker",
                    "handleClickOutside"}
    \/ last.op = "execCommand" /\ last.command # "foreColor"

\* C24: the palette button opens the closed color sub-panel; the open
\* sub-panel is closed after a color was picked and after any mouse press
\* outside it, and is still open after the pointer moved.
C24_ColorPickerCloses ==
    /\ (last.op = "setShowColorPicker" /\ ~last.prePicker) => showColorPicker
    /\ (last.op = "execCommand" /\ last.command = "foreColor") =>
           ~showColorPicker
    /\ (last.op # "none" /\ last.prePicker /\ PressedOutsidePanel) =>
           ~showColorPicker
    /\ (last.op = "setHoveredBlockId" /\ last.prePicker) => showColorPicker

\* C24 without the presses on the formatting buttons of the toolbar.
C24_ColorPickerCloses_NotToolbar ==
    /\ (last.op = "setShowColorPicker" /\ ~last.prePicker) => showColorPicker
    /\ (last.op = "execCommand" /\ last.command = "foreColor") =>
           ~showColorPicker
    /\ (last.op # "none" /\ last.prePicker /\ PressedOutsidePanel
          /\ last.op # "execCommand") => ~showColorPicker
    /\ (last.op = "setHoveredBlockId" /\ last.prePicker) => showColorPicker

\* The pointer moved while the sub-panel was open.
C24_Hover_Witness == last.op = "setHoveredBlockId" /\ last.prePicker

\* C25: every width that a mouse movement writes is written while the mouse
\* button is held since a press on a resize handle; a movement after the
\* release writes nothing and leaves the sequence as it was.
C25_ResizeEndsOnRelease ==
    /\ Resized => last.held
    /\ last.op = "mousemove" => blocks = last.pre

\* A drag changed a width, the button was released, the mouse moved again.
C25_Witness ==
    /\ last.op = "mousemove"
    /\ ~last.held
    /\ \E i \in 1..Len(blocks) : blocks[i].width # SeedBlocks[i].width

\* C27: in every state the focused block id is null or the id of a block of
\* the sequence.
C27_FocusInSequence ==
    activeBlockId = Null \/ activeBlockId \in IdsOf(blocks)

\* C28: in every state the open-menu block id is null or the id of a block
\* of the sequence, and after a block was deleted from its own menu no block
\* shows a menu.
C28_MenuInSequence ==
    /\ menuOpenBlockId = Null \/ menuOpenBlockId \in IdsOf(blocks)
    /\ (Removed /\ last.preMenu = last.id) => OpenMenus = {}

\* C28, second half alone: after the delete no block shows a menu.
C28_NoMenuShownAfterDelete ==
    (Removed /\ last.preMenu = last.id) => OpenMenus = {}

\* A block was deleted from its own menu.
C28_Delete_Witness == Removed /\ last.preMenu = last.id

\* The innerHTML of the RichText element of id is the content of its block.
Shows(id) == dom[id] = BlockOf(blocks, id).content

\* C30: every RichText element that is rendered and does not hold the focus
\* shows the content of its block.
C30_SurfaceShowsContent ==
    \A id \in IdsOf(blocks) :
        (Mounted(blocks, id) /\ id # domFocus) => Shows(id)

\* C30 for the states that no retype of a text block to another tagName
\* has led to: a retype before which the element showed its content leaves
\* the element of the same tagName, or a new RichText, showing it.
C30_SurfaceShowsContent_SameElement ==
    (Retyped /\ (\A id \in IdsOf(last.pre) :
                    Mounted(last.pre, id) => last.dom[id] =
                        BlockOf(last.pre, id).content)
       /\ Mounted(blocks, last.id)
       /\ (SameElement(last.pre, blocks, last.id)
             \/ ~SameInstance(last.pre, blocks, last.id))) =>
        C30_SurfaceShowsContent

\* A paragraph that holds text was turned into a quote, whose RichText is a
\* new one.
C30_SameElement_Witness ==
    /\ Retyped
    /\ Mounted(blocks, last.id)
    /\ ~SameInstance(last.pre, blocks, last.id)
    /\ BlockOf(blocks, last.id).content = "x"

====
